---- MODULE Spec2Model ----
(***************************************************************************)
(* Model of the Odoo Index MCP server (src/odoo_index_mcp/server.py) and   *)
(* of its configuration loading (src/odoo_index_mcp/config.py).            *)
(*                                                                         *)
(* The server has two threads that share the process-wide dictionary       *)
(* _indexing_status: the event-loop thread, which runs one handler at a    *)
(* time (update_index, get_index_status, and the two halves of every       *)
(* _run_indexing_task around its await), and the boot IndexerThread        *)
(* started by main() when no index is found. Statements of one thread may  *)
(* interleave with statements of the other, so every read or write of      *)
(* _indexing_status is a step of its own.                                  *)
(*                                                                         *)
(* Python's None is <<>> and a present value v is <<v>>; a str is a tuple  *)
(* of one-character strings.                                               *)
(***************************************************************************)
EXTENDS Integers, Sequences, FiniteSets, TLC

VARIABLES
    server,      \* position of main(): "boot" before main() ran, then "serving"
    indexing_status,  \* _indexing_status
    now,         \* the last reading of time.time()
    calls,       \* the arguments of every update_index call, in call order
    responses,   \* the dict each update_index call returned, in call order
    tasks,       \* the _run_indexing_task coroutines created, in creation order
    boot,        \* the IndexerThread running run_indexing
    query,       \* the get_index_status call in progress on the event loop
    qres,        \* what the last finished get_index_status call returned
    search,      \* the last search call forwarded to tools.*
    env,         \* the process environment and file system seen by config.py
    cfg          \* the outcome of importing config.py

vars == <<server, indexing_status, now, calls, responses, tasks, boot, query, qres, search, env, cfg>>

serverVars == <<server, indexing_status, now, calls, responses, tasks, boot, query, qres>>

----------------------------------------------------------------------------
(* Bounds of the model *)

\* update_index calls made in one behaviour
MaxTriggers == 2

\* largest reading of time.time()
MaxTime == 1

----------------------------------------------------------------------------
(* Python values *)

None == <<>>

Some(v) == <<v>>

\* an argument left out by the caller takes the default of the signature
WithDefault(arg, default) == IF arg = None THEN default ELSE arg[1]

\* str.split(sep) for a one-character separator
RECURSIVE Split(_, _)
Split(s, sep) ==
    IF \A i \in 1..Len(s) : s[i] # sep
    THEN <<s>>
    ELSE LET k == CHOOSE i \in 1..Len(s) :
                      s[i] = sep /\ \A j \in 1..(i - 1) : s[j] # sep
         IN  <<SubSeq(s, 1, k - 1)>> \o Split(SubSeq(s, k + 1, Len(s)), sep)

\* str.strip(): leading and trailing whitespace removed
RECURSIVE LStrip(_)
LStrip(s) == IF s # <<>> /\ Head(s) = " " THEN LStrip(Tail(s)) ELSE s

RECURSIVE RStrip(_)
RStrip(s) ==
    IF s # <<>> /\ s[Len(s)] = " " THEN RStrip(SubSeq(s, 1, Len(s) - 1)) ELSE s

Strip(s) == RStrip(LStrip(s))

\* lines 265-267: module_filter = [m.strip() for m in modules.split(',')]
\* when modules is truthy (neither None nor ""), else None
ModuleFilter(modules) ==
    IF modules = None \/ modules[1] = <<>>
    THEN None
    ELSE LET parts == Split(modules[1], ",")
         IN  Some([i \in 1..Len(parts) |-> Strip(parts[i])])

----------------------------------------------------------------------------
(* The run status record and the runs *)

\* lines 204-209
InitialStatus ==
    [is_running |-> FALSE, start_time |-> None, incremental |-> None, modules |-> None]

\* the coroutine awaited in place ('await _run_indexing_task(...)'): the
\* caller continues only once the run has ended
CreateTaskAwaited(incremental, module_filter, clear_db) ==
    [pc |-> "done", incremental |-> incremental, module_filter |-> module_filter,
     clear_db |-> clear_db,
     exec |-> Some([incremental |-> incremental, module_filter |-> module_filter,
                    clear_db |-> clear_db]),
     outcome |-> Some("returned")]

\* line 270: asyncio.create_task schedules the coroutine; it has not run yet
CreateTask(incremental, module_filter, clear_db) ==
    [pc |-> "created", incremental |-> incremental, module_filter |-> module_filter,
     clear_db |-> clear_db, exec |-> None, outcome |-> None]

\* the store cleared on every full re-index, whatever the caller passed
TaskIndexArgsClearing(t) ==
    [incremental |-> t.incremental, module_filter |-> t.module_filter,
     clear_db |-> ~t.incremental]

\* the index call made without module_filter=..., so with its default
TaskIndexArgsNoFilter(t) ==
    [incremental |-> t.incremental, module_filter |-> None,
     clear_db |-> t.clear_db]

\* lines 223-227: the keyword arguments _run_indexing_task passes on
TaskIndexArgs(t) ==
    [incremental |-> t.incremental, module_filter |-> t.module_filter,
     clear_db |-> t.clear_db]

\* line 395: index_odoo_codebase(incremental=False, clear_db=False); the
\* module filter is left at its default, None
BootIndexArgs ==
    [incremental |-> FALSE, module_filter |-> None, clear_db |-> FALSE]

\* lines 272-282: the acknowledgement update_index returns
StartedResponse(module_filter) ==
    [success |-> TRUE, status |-> "started", for_modules |-> module_filter]

\* task positions at which the coroutine is executing on the event loop
\* (between two awaits): no other handler runs meanwhile
OnLoop == {"l218", "l219", "l220", "l223", "l233"}

\* the event loop runs one handler at a time
LoopFree ==
    /\ query.pc = "idle"
    /\ \A i \in 1..Len(tasks) : tasks[i].pc \notin OnLoop

\* the ready queue is first in, first out: the oldest created task starts first
NextCreated(i) ==
    /\ tasks[i].pc = "created"
    /\ \A j \in 1..(i - 1) : tasks[j].pc # "created"

----------------------------------------------------------------------------
(* The search tools: the page limit forwarded to the store *)

\* largest limit a caller passes
MaxLimit == 102

\* the most negative limit and offset a caller passes is -MaxNegative
MaxNegative == 2

\* largest offset a caller passes
MaxOffset == 2

min(a, b) == IF a <= b THEN a ELSE b

\* the cap of the other two tools used for search_odoo_index
SearchOdooIndexLimitOf100(limit) == min(limit, 100)

\* line 65: limit = min(limit, 50)
SearchOdooIndexLimit(limit) == min(limit, 50)

\* line 169: limit = min(limit, 100)
SearchByAttributeLimit(limit) == min(limit, 100)

\* line 199: limit = min(limit, 100)
SearchXmlIdLimit(limit) == min(limit, 100)

\* what a search tool hands to its tools.* function
Forwarded(tool, limit_in, offset_in, limit, offset) ==
    [tool |-> tool, limit_in |-> limit_in, offset_in |-> offset_in,
     limit |-> limit, offset |-> offset]

\* lines 26-66
search_odoo_index ==
    /\ \E limit \in (-MaxNegative)..MaxLimit, offset \in (-MaxNegative)..MaxOffset :
           search' = Forwarded("search_odoo_index", limit, offset,
                               SearchOdooIndexLimit(limit), offset)
    /\ UNCHANGED <<serverVars, env, cfg>>

\* lines 145-170
search_by_attribute ==
    /\ \E limit \in (-MaxNegative)..MaxLimit, offset \in (-MaxNegative)..MaxOffset :
           search' = Forwarded("search_by_attribute", limit, offset,
                               SearchByAttributeLimit(limit), offset)
    /\ UNCHANGED <<serverVars, env, cfg>>

\* lines 174-200
search_xml_id ==
    /\ \E limit \in (-MaxNegative)..MaxLimit, offset \in (-MaxNegative)..MaxOffset :
           search' = Forwarded("search_xml_id", limit, offset,
                               SearchXmlIdLimit(limit), offset)
    /\ UNCHANGED <<serverVars, env, cfg>>

----------------------------------------------------------------------------
(* config.py: the settings read from the environment at import *)

\* a path is the string it was made from, but Path('') is Path('.')
Path(s) == IF s = "" THEN "." ELSE s

\* os.getenv(name, default) of a variable that is <<>> when unset
GetEnv(value, default) == IF value = None THEN default ELSE value[1]

\* bool(path): pathlib paths define neither __bool__ nor __len__
PathTruthy(path) == TRUE

\* Path.exists() in the file system fs, the set of the paths that exist
PathExists(path, fs) == path \in fs

Digits == <<"0", "1", "2", "3", "4", "5", "6", "7", "8", "9">>

IsDigit(c) == \E d \in 1..10 : Digits[d] = c

DigitValue(c) == (CHOOSE d \in 1..10 : Digits[d] = c) - 1

\* int(s) of a str s raises a ValueError unless s is a number; the strings
\* of the model hold digits and letters only
IntParses(s) == s # <<>> /\ \A i \in 1..Len(s) : IsDigit(s[i])

RECURSIVE IntValue(_)
IntValue(s) ==
    IF s = <<>> THEN 0
    ELSE 10 * IntValue(SubSeq(s, 1, Len(s) - 1)) + DigitValue(s[Len(s)])

\* lines 10-15: a ValueError unless ODOO_PATH is truthy and exists
OdooPathRejected(e) ==
    LET ODOO_PATH == Path(GetEnv(e.odoo_path, ""))
    IN  ~PathTruthy(ODOO_PATH) \/ ~PathExists(ODOO_PATH, e.fs)

\* lines 10-23: the module's settings, or the ValueError its import raises
LoadConfig(e) ==
    LET concurrent == GetEnv(e.max_concurrent_modules, <<"4">>)
        workers    == GetEnv(e.max_worker_processes, <<"0">>)
        failed(msg) ==
            [error |-> Some(msg), ODOO_PATH |-> None, SQLITE_DB_PATH |-> None,
             LOG_LEVEL |-> None, MAX_CONCURRENT_MODULES |-> None,
             MAX_WORKER_PROCESSES |-> None]
    IN  IF OdooPathRejected(e)
        THEN failed("ODOO_PATH must be set in environment and must exist")
        ELSE IF ~IntParses(concurrent) \/ ~IntParses(workers)
        THEN failed("invalid literal for int()")
        ELSE [error |-> None,
              ODOO_PATH |-> Some(Path(GetEnv(e.odoo_path, ""))),
              SQLITE_DB_PATH |-> Some(Path(GetEnv(e.sqlite_db_path, "odoo_index.db"))),
              LOG_LEVEL |-> Some(GetEnv(e.log_level, "INFO")),
              MAX_CONCURRENT_MODULES |-> Some(IntValue(concurrent)),
              MAX_WORKER_PROCESSES |-> Some(IntValue(workers))]

\* the environments (after load_dotenv, line 7) and file systems explored
Envs ==
    [odoo_path : {None, Some(""), Some("/odoo"), Some("/srv/odoo")},
     fs : SUBSET {".", "/odoo", "/srv/odoo"},
     sqlite_db_path : {None, Some("/odoo.db")},
     log_level : {None, Some("DEBUG")},
     max_concurrent_modules : {None, Some(<<"8">>), Some(<<"x">>)},
     max_worker_processes : {None, Some(<<"1", "2">>), Some(<<>>)},
     indexed_items : {Some(0)}]

\* the environment the server of the model runs in
ServerEnv ==
    [odoo_path |-> Some("/odoo"), fs |-> {".", "/odoo"}, sqlite_db_path |-> None,
     log_level |-> None, max_concurrent_modules |-> None,
     max_worker_processes |-> None, indexed_items |-> Some(0)]

\* the rows of the indexed_items table in the database file when the server
\* starts: None when the database cannot be read, else their number
MaxItems == 2

IndexStates == {None} \cup {Some(n) : n \in 0..MaxItems}

\* the server's environment with the index in the state items
ServerEnvWith(items) == [ServerEnv EXCEPT !.indexed_items = items]

\* server.py line 9, 'from . import config', runs config.py
ImportConfig ==
    /\ cfg = None
    /\ cfg' = Some(LoadConfig(env))
    /\ UNCHANGED <<serverVars, search, env>>

----------------------------------------------------------------------------
(* Initial state *)

NoQuery == [pc |-> "idle", resp |-> None]

NoSearch == Forwarded("none", 0, 0, 0, 0)

\* the server module as imported: nothing has run yet
InitServer ==
    /\ server = "boot"
    /\ indexing_status = InitialStatus
    /\ now = 0
    /\ calls = <<>>
    /\ responses = <<>>
    /\ tasks = <<>>
    /\ boot = [pc |-> "none", exec |-> None, outcome |-> None]
    /\ query = NoQuery
    /\ qres = None
    /\ search = NoSearch

\* the server starts with its configuration loaded, on an empty index or on
\* an index of one item
Init ==
    /\ InitServer
    /\ env \in {ServerEnvWith(Some(0)), ServerEnvWith(Some(1))}
    /\ cfg = Some(LoadConfig(ServerEnv))

\* the server starts on an index in any state
InitStart ==
    /\ InitServer
    /\ env \in {ServerEnvWith(items) : items \in IndexStates}
    /\ cfg = Some(LoadConfig(ServerEnv))

\* before config.py is imported, in any environment
InitConfig ==
    /\ InitServer
    /\ env \in Envs
    /\ cfg = None

----------------------------------------------------------------------------
(* main() *)

\* an index that cannot be read taken for an index that exists
check_index_exists_or_unreadable(e) ==
    IF e.indexed_items = None THEN TRUE ELSE e.indexed_items[1] > 0

\* lines 362-378: count > 0; False when reading the database raises
check_index_exists(e) ==
    IF e.indexed_items = None THEN FALSE ELSE e.indexed_items[1] > 0

\* lines 408-420: start the IndexerThread when _check_index_exists() is
\* False (no items, or the database cannot be read), then serve
main ==
    /\ server = "boot"
    /\ boot' = IF check_index_exists(env) THEN boot ELSE [boot EXCEPT !.pc = "l389"]
    /\ server' = "serving"
    /\ UNCHANGED <<indexing_status, now, calls, responses, tasks, query, qres, search, env, cfg>>

----------------------------------------------------------------------------
(* update_index *)

\* the update_index calls explored, after the docstring's examples (lines
\* 258-262): update_index(), update_index(incremental=False, modules="a, b"),
\* update_index(clear_db=True, incremental=False)
\* 'raises' says which statement of the handler's try block raises during
\* the call, if one does: None in these calls
DocumentedCalls ==
    { [incremental |-> None, modules |-> None, clear_db |-> None, raises |-> None],
      [incremental |-> Some(FALSE), modules |-> Some(<<"a", ",", " ", "b">>),
       clear_db |-> None, raises |-> None],
      [incremental |-> Some(FALSE), modules |-> None, clear_db |-> Some(TRUE),
       raises |-> None] }

\* the calls made while status queries are explored: those that leave
\* clear_db out
StatusCalls ==
    { c \in DocumentedCalls : c.clear_db = None }

\* longest 'modules' argument a caller passes
MaxLen == 3

\* the characters of a 'modules' argument: a letter, the separator, a blank
ModuleChars == {"a", ",", " "}

\* the strings over ModuleChars of length n or less
RECURSIVE Strings(_)
Strings(n) ==
    IF n = 0 THEN {<<>>}
    ELSE LET shorter == Strings(n - 1)
         IN  shorter \cup {Append(t, c) : t \in {u \in shorter : Len(u) = n - 1},
                                          c \in ModuleChars}

\* update_index(modules=...) with any string, and update_index()
ModuleCalls ==
    { [incremental |-> None, modules |-> m, clear_db |-> None, raises |-> None] :
          m \in {None} \cup {Some(t) : t \in Strings(MaxLen)} }

\* line 266: the truth value of the 'modules' argument
Truthy(modules) == modules # None /\ modules[1] # <<>>

\* calls during which starting the run fails: parsing the module list (line
\* 267, reached only with a truthy 'modules') or scheduling the task (line
\* 270) raises
FailingCalls ==
    { [c EXCEPT !.raises = Some("split")] : c \in {d \in StatusCalls : Truthy(d.modules)} }
    \cup { [c EXCEPT !.raises = Some("create_task")] : c \in StatusCalls }

\* the handler answering 'started' whatever happened
FailedResponseStarted(e) ==
    [success |-> TRUE, status |-> "started", for_modules |-> None]

\* lines 283-289: the response of the except clause
FailedResponse(e) ==
    [success |-> FALSE, error |-> <<"Failed to start index update: ", e>>]

\* lines 237-282: the handler has no await, so it runs as one step of the
\* event loop; it touches no shared state
update_index(Calls) ==
    /\ server = "serving"
    /\ LoopFree
    /\ Len(calls) < MaxTriggers
    /\ \E call \in Calls :
           LET module_filter == ModuleFilter(call.modules)
           IN  /\ calls' = Append(calls, call)
               /\ IF call.raises = None
                  THEN /\ tasks' = Append(tasks,
                                          CreateTask(WithDefault(call.incremental, TRUE),
                                                     module_filter,
                                                     WithDefault(call.clear_db, FALSE)))
                       /\ responses' = Append(responses, StartedResponse(module_filter))
                  ELSE /\ tasks' = tasks
                       /\ responses' = Append(responses, FailedResponse(call.raises[1]))
    /\ UNCHANGED <<server, indexing_status, now, boot, query, qres, search, env, cfg>>

----------------------------------------------------------------------------
(* _run_indexing_task, a coroutine on the event loop *)

\* line 217, the first statement the task runs once the loop picks it up
run_indexing_task_set_running(i) ==
    /\ LoopFree
    /\ NextCreated(i)
    /\ indexing_status' = [indexing_status EXCEPT !.is_running = TRUE]
    /\ tasks' = [tasks EXCEPT ![i].pc = "l218"]
    /\ UNCHANGED <<server, now, calls, responses, boot, query, qres, search, env, cfg>>

\* line 218: _indexing_status["start_time"] = time.time()
run_indexing_task_set_start_time(i) ==
    /\ tasks[i].pc = "l218"
    /\ \E t \in now..MaxTime :
           /\ now' = t
           /\ indexing_status' = [indexing_status EXCEPT !.start_time = Some(t)]
    /\ tasks' = [tasks EXCEPT ![i].pc = "l219"]
    /\ UNCHANGED <<server, calls, responses, boot, query, qres, search, env, cfg>>

\* line 219
run_indexing_task_set_incremental(i) ==
    /\ tasks[i].pc = "l219"
    /\ indexing_status' = [indexing_status EXCEPT !.incremental = Some(tasks[i].incremental)]
    /\ tasks' = [tasks EXCEPT ![i].pc = "l220"]
    /\ UNCHANGED <<server, now, calls, responses, boot, query, qres, search, env, cfg>>

\* line 220
run_indexing_task_set_modules(i) ==
    /\ tasks[i].pc = "l220"
    /\ indexing_status' = [indexing_status EXCEPT !.modules = tasks[i].module_filter]
    /\ tasks' = [tasks EXCEPT ![i].pc = "l223"]
    /\ UNCHANGED <<server, now, calls, responses, boot, query, qres, search, env, cfg>>

\* lines 223-227: call index_odoo_codebase and suspend at the await
run_indexing_task_call_index(i) ==
    /\ tasks[i].pc = "l223"
    /\ tasks' = [tasks EXCEPT ![i].pc = "awaiting",
                              ![i].exec = Some(TaskIndexArgs(tasks[i]))]
    /\ UNCHANGED <<server, indexing_status, now, calls, responses, boot, query, qres, search, env, cfg>>

\* index_odoo_codebase (indexer module) ends: it returns or raises an
\* Exception, which makes the awaiting task ready to resume
index_odoo_codebase_ends(i) ==
    /\ tasks[i].pc = "awaiting"
    /\ \E outcome \in {"returned", "raised"} :
           tasks' = [tasks EXCEPT ![i].pc = "ready", ![i].outcome = Some(outcome)]
    /\ UNCHANGED <<server, indexing_status, now, calls, responses, boot, query, qres, search, env, cfg>>

\* is_running cleared after the index call only when it returned: the
\* clean-up as it would be without the finally block
run_indexing_task_clear_on_return(i) ==
    /\ LoopFree
    /\ tasks[i].pc = "ready"
    /\ indexing_status' = IF tasks[i].outcome = Some("returned")
                          THEN [indexing_status EXCEPT !.is_running = FALSE]
                          ELSE indexing_status
    /\ tasks' = [tasks EXCEPT ![i].pc = IF tasks[i].outcome = Some("returned")
                                        THEN "l233" ELSE "done"]
    /\ UNCHANGED <<server, now, calls, responses, boot, query, qres, search, env, cfg>>

\* the loop resumes the task: line 228 (returned) or lines 229-230 (raised;
\* the exception is logged and swallowed), then line 232 of the finally block
run_indexing_task_clear_running(i) ==
    /\ LoopFree
    /\ tasks[i].pc = "ready"
    /\ indexing_status' = [indexing_status EXCEPT !.is_running = FALSE]
    /\ tasks' = [tasks EXCEPT ![i].pc = "l233"]
    /\ UNCHANGED <<server, now, calls, responses, boot, query, qres, search, env, cfg>>

\* line 233; the coroutine then ends
run_indexing_task_clear_start_time(i) ==
    /\ tasks[i].pc = "l233"
    /\ indexing_status' = [indexing_status EXCEPT !.start_time = None]
    /\ tasks' = [tasks EXCEPT ![i].pc = "done"]
    /\ UNCHANGED <<server, now, calls, responses, boot, query, qres, search, env, cfg>>

----------------------------------------------------------------------------
(* run_indexing, the body of the IndexerThread *)

\* line 389
run_indexing_set_running ==
    /\ boot.pc = "l389"
    /\ indexing_status' = [indexing_status EXCEPT !.is_running = TRUE]
    /\ boot' = [boot EXCEPT !.pc = "l390"]
    /\ UNCHANGED <<server, now, calls, responses, tasks, query, qres, search, env, cfg>>

\* line 390
run_indexing_set_start_time ==
    /\ boot.pc = "l390"
    /\ \E t \in now..MaxTime :
           /\ now' = t
           /\ indexing_status' = [indexing_status EXCEPT !.start_time = Some(t)]
    /\ boot' = [boot EXCEPT !.pc = "l391"]
    /\ UNCHANGED <<server, calls, responses, tasks, query, qres, search, env, cfg>>

\* line 391
run_indexing_set_incremental ==
    /\ boot.pc = "l391"
    /\ indexing_status' = [indexing_status EXCEPT !.incremental = Some(FALSE)]
    /\ boot' = [boot EXCEPT !.pc = "l392"]
    /\ UNCHANGED <<server, now, calls, responses, tasks, query, qres, search, env, cfg>>

\* line 392
run_indexing_set_modules ==
    /\ boot.pc = "l392"
    /\ indexing_status' = [indexing_status EXCEPT !.modules = None]
    /\ boot' = [boot EXCEPT !.pc = "l395"]
    /\ UNCHANGED <<server, now, calls, responses, tasks, query, qres, search, env, cfg>>

\* line 395: asyncio.run(index_odoo_codebase(...)) starts in the thread
run_indexing_call_index ==
    /\ boot.pc = "l395"
    /\ boot' = [boot EXCEPT !.pc = "indexing", !.exec = Some(BootIndexArgs)]
    /\ UNCHANGED <<server, indexing_status, now, calls, responses, tasks, query, qres, search, env, cfg>>

\* index_odoo_codebase ends in the thread; line 396 or lines 397-398
run_indexing_index_ends ==
    /\ boot.pc = "indexing"
    /\ \E outcome \in {"returned", "raised"} :
           boot' = [boot EXCEPT !.pc = "l400", !.outcome = Some(outcome)]
    /\ UNCHANGED <<server, indexing_status, now, calls, responses, tasks, query, qres, search, env, cfg>>

\* line 400
run_indexing_clear_running ==
    /\ boot.pc = "l400"
    /\ indexing_status' = [indexing_status EXCEPT !.is_running = FALSE]
    /\ boot' = [boot EXCEPT !.pc = "l401"]
    /\ UNCHANGED <<server, now, calls, responses, tasks, query, qres, search, env, cfg>>

\* line 401; the thread then ends
run_indexing_clear_start_time ==
    /\ boot.pc = "l401"
    /\ indexing_status' = [indexing_status EXCEPT !.start_time = None]
    /\ boot' = [boot EXCEPT !.pc = "done"]
    /\ UNCHANGED <<server, now, calls, responses, tasks, query, qres, search, env, cfg>>

----------------------------------------------------------------------------
(* get_index_status, a synchronous handler on the event loop *)

\* lines 355-359: any exception becomes an error object
ErrorResponse ==
    [error |-> TRUE, is_running |-> None, elapsed_seconds |-> None,
     incremental |-> None, modules |-> None]

\* lines 335-343: the response before the details of a running run are added
\* (the counts read from the database are left out)
BaseResponse(is_running) ==
    [error |-> FALSE, is_running |-> Some(is_running), elapsed_seconds |-> None,
     incremental |-> None, modules |-> None]

\* lines 307-343: read the counts from the database (which may raise) and
\* read is_running into the response (line 341)
get_index_status_begin ==
    /\ server = "serving"
    /\ LoopFree
    /\ \E db_ok \in BOOLEAN :
           IF db_ok
           THEN /\ query' = [pc |-> "l346", resp |-> Some(BaseResponse(indexing_status.is_running))]
                /\ qres' = qres
           ELSE /\ query' = NoQuery
                /\ qres' = Some(ErrorResponse)
    /\ UNCHANGED <<server, indexing_status, now, calls, responses, tasks, boot, search, env, cfg>>

\* line 346: is_running is read a second time; line 353 when it is False
get_index_status_test_running ==
    /\ query.pc = "l346"
    /\ IF indexing_status.is_running
       THEN /\ query' = [query EXCEPT !.pc = "l347"]
            /\ qres' = qres
       ELSE /\ query' = NoQuery
            /\ qres' = query.resp
    /\ UNCHANGED <<server, indexing_status, now, calls, responses, tasks, boot, search, env, cfg>>

\* lines 347-348: int(time.time() - start_time); the subtraction raises a
\* TypeError when start_time is None, caught at line 355
get_index_status_elapsed ==
    /\ query.pc = "l347"
    /\ \E t \in now..MaxTime :
           /\ now' = t
           /\ IF indexing_status.start_time = None
              THEN /\ query' = NoQuery
                   /\ qres' = Some(ErrorResponse)
              ELSE /\ query' = [pc |-> "l349",
                                resp |-> Some([query.resp[1] EXCEPT
                                    !.elapsed_seconds = Some(t - indexing_status.start_time[1])])]
                   /\ qres' = qres
    /\ UNCHANGED <<server, indexing_status, calls, responses, tasks, boot, search, env, cfg>>

\* line 349
get_index_status_incremental ==
    /\ query.pc = "l349"
    /\ query' = [pc |-> "l350",
                 resp |-> Some([query.resp[1] EXCEPT !.incremental = Some(indexing_status.incremental)])]
    /\ UNCHANGED <<server, indexing_status, now, calls, responses, tasks, boot, qres, search, env, cfg>>

\* line 350: the truth value of the module list; line 353 when it is falsy
get_index_status_test_modules ==
    /\ query.pc = "l350"
    /\ IF indexing_status.modules # None /\ indexing_status.modules[1] # <<>>
       THEN /\ query' = [query EXCEPT !.pc = "l351"]
            /\ qres' = qres
       ELSE /\ query' = NoQuery
            /\ qres' = query.resp
    /\ UNCHANGED <<server, indexing_status, now, calls, responses, tasks, boot, search, env, cfg>>

\* lines 351-353: the module list is read again and the response returned
get_index_status_modules ==
    /\ query.pc = "l351"
    /\ query' = NoQuery
    /\ qres' = Some([query.resp[1] EXCEPT !.modules = Some(indexing_status.modules)])
    /\ UNCHANGED <<server, indexing_status, now, calls, responses, tasks, boot, search, env, cfg>>

----------------------------------------------------------------------------
(* The server *)

\* a step of an indexing run: of a task on the event loop, of
\* index_odoo_codebase, or of the IndexerThread
RunStep ==
    \/ \E i \in 1..Len(tasks) : run_indexing_task_set_running(i)
    \/ \E i \in 1..Len(tasks) : run_indexing_task_set_start_time(i)
    \/ \E i \in 1..Len(tasks) : run_indexing_task_set_incremental(i)
    \/ \E i \in 1..Len(tasks) : run_indexing_task_set_modules(i)
    \/ \E i \in 1..Len(tasks) : run_indexing_task_call_index(i)
    \/ \E i \in 1..Len(tasks) : index_odoo_codebase_ends(i)
    \/ \E i \in 1..Len(tasks) : run_indexing_task_clear_running(i)
    \/ \E i \in 1..Len(tasks) : run_indexing_task_clear_start_time(i)
    \/ run_indexing_set_running
    \/ run_indexing_set_start_time
    \/ run_indexing_set_incremental
    \/ run_indexing_set_modules
    \/ run_indexing_call_index
    \/ run_indexing_index_ends
    \/ run_indexing_clear_running
    \/ run_indexing_clear_start_time

\* a step of a get_index_status call
get_index_status ==
    \/ get_index_status_begin
    \/ get_index_status_test_running
    \/ get_index_status_elapsed
    \/ get_index_status_incremental
    \/ get_index_status_test_modules
    \/ get_index_status_modules

\* the server with its indexing runs
Next ==
    \/ main
    \/ update_index(DocumentedCalls)
    \/ RunStep

Spec == Init /\ [][Next]_vars

\* the steps of the _run_indexing_task coroutines, which the event loop runs
LoopStep ==
    \E i \in 1..Len(tasks) :
        \/ run_indexing_task_set_running(i)
        \/ run_indexing_task_set_start_time(i)
        \/ run_indexing_task_set_incremental(i)
        \/ run_indexing_task_set_modules(i)
        \/ run_indexing_task_call_index(i)
        \/ run_indexing_task_clear_running(i)
        \/ run_indexing_task_clear_start_time(i)

\* the event loop keeps running: a coroutine that can take a step takes it
SpecLoop == Init /\ [][Next]_vars /\ WF_vars(LoopStep)

\* the steps of run_indexing on the IndexerThread, which the OS schedules
ThreadStep ==
    \/ run_indexing_set_running
    \/ run_indexing_set_start_time
    \/ run_indexing_set_incremental
    \/ run_indexing_set_modules
    \/ run_indexing_call_index
    \/ run_indexing_clear_running
    \/ run_indexing_clear_start_time

\* an index_odoo_codebase call returns or raises
IndexEnds ==
    \/ \E i \in 1..Len(tasks) : index_odoo_codebase_ends(i)
    \/ run_indexing_index_ends

\* the server with its indexing runs and status queries
NextStatus ==
    \/ main
    \/ update_index(StatusCalls)
    \/ RunStep
    \/ get_index_status

SpecStatus == Init /\ [][NextStatus]_vars

\* the server started on an index in any state, then serving update_index()
NextStart ==
    \/ main
    \/ update_index({c \in DocumentedCalls : c.incremental = None})
    \/ RunStep

SpecStart == InitStart /\ [][NextStart]_vars

\* the server, triggered with update_index(), when both threads keep running
\* and every index_odoo_codebase call ends
SpecEnds ==
    /\ Init /\ [][NextStart]_vars
    /\ WF_vars(LoopStep) /\ WF_vars(ThreadStep) /\ WF_vars(IndexEnds)

\* the server triggered with any 'modules' argument, and the triggered runs
NextModules ==
    \/ main
    \/ update_index(ModuleCalls)
    \/ LoopStep
    \/ \E i \in 1..Len(tasks) : index_odoo_codebase_ends(i)

SpecModules == Init /\ [][NextModules]_vars

\* the server with update_index calls that fail to start their run
NextFailing ==
    \/ main
    \/ update_index(StatusCalls \cup FailingCalls)
    \/ RunStep

SpecFailing == Init /\ [][NextFailing]_vars

\* the search tools
NextSearch ==
    \/ search_odoo_index
    \/ search_by_attribute
    \/ search_xml_id

SpecSearch == Init /\ [][NextSearch]_vars

\* the import of config.py
NextConfig == ImportConfig

SpecConfig == InitConfig /\ [][NextConfig]_vars

----------------------------------------------------------------------------
(* Runs in progress, and what a status query reports *)

\* the update_index tasks whose index_odoo_codebase call is in progress
TasksIndexing == {i \in 1..Len(tasks) : tasks[i].pc = "awaiting"}

\* the number of index_odoo_codebase executions in progress
RunsIndexing == Cardinality(TasksIndexing) + (IF boot.pc = "indexing" THEN 1 ELSE 0)

\* every run that was started has ended, and there was one
AllRunsEnded ==
    /\ \A i \in 1..Len(tasks) : tasks[i].pc = "done"
    /\ boot.pc \in {"none", "done"}
    /\ Len(tasks) > 0 \/ boot.pc = "done"

\* every run that was started ended with index_odoo_codebase raising
AllRunsRaised ==
    /\ \A i \in 1..Len(tasks) : tasks[i].outcome = Some("raised")
    /\ boot.pc = "done" => boot.outcome = Some("raised")

\* lines 340-359: the 'indexing' part of the response of a get_index_status
\* call that reads the status record st at the time t without interference
IndexingReport(st, t) ==
    IF ~st.is_running THEN BaseResponse(FALSE)
    ELSE IF st.start_time = None THEN ErrorResponse
    ELSE [BaseResponse(TRUE) EXCEPT
              !.elapsed_seconds = Some(t - st.start_time[1]),
              !.incremental = Some(st.incremental),
              !.modules = IF st.modules # None /\ st.modules[1] # <<>>
                          THEN Some(st.modules) ELSE None]

----------------------------------------------------------------------------
(* Properties *)

\* C1: at most one indexing run is in progress at any time: no two
\* executions of index_odoo_codebase overlap.
C1_AtMostOneRunInProgress == RunsIndexing <= 1

\* C2: an update_index call made while a run is in progress is rejected:
\* it creates no task, leaves the status record as it is, and its response
\* does not say that a run was started.
C2_TriggerWhileRunningRejected ==
    [][(Len(calls') = Len(calls) + 1 /\ RunsIndexing >= 1)
           => /\ Len(tasks') = Len(tasks)
              /\ indexing_status' = indexing_status
              /\ responses'[Len(responses')].status # "started"]_vars

\* C3: update_index returns its 'started' acknowledgement while the run it
\* triggered has not run yet: in the step that produces the response, the
\* run's task is created and has neither executed nor ended.
C3_AckBeforeRunEnds ==
    [][Len(responses') = Len(responses) + 1
           => LET i == Len(responses')
              IN  /\ responses'[i].status = "started"
                  /\ Len(tasks') = i
                  /\ tasks'[i].pc = "created"
                  /\ tasks'[i].exec = None
                  /\ tasks'[i].outcome = None]_vars

\* C3, witness: an acknowledged run is executing index_odoo_codebase after
\* its caller got the response.
C3_Witness ==
    \E i \in 1..Len(responses) :
        responses[i].status = "started" /\ tasks[i].pc = "awaiting"

\* C4: whenever a run is in progress, the is_running a get_index_status call
\* reads into its response (line 341) is true.
C4_ReportsRunning ==
    [][(query.pc = "idle" /\ query'.pc = "l346" /\ RunsIndexing >= 1)
           => query'.resp[1].is_running = Some(TRUE)]_vars

\* C5: when a run ends, after index_odoo_codebase returned or raised, the
\* status record has is_running = false and start_time = null.
C5_StatusClearedAtRunEnd ==
    [][(\/ \E i \in 1..Len(tasks) : tasks[i].pc = "l233" /\ tasks'[i].pc = "done"
        \/ boot.pc = "l401" /\ boot'.pc = "done")
           => indexing_status'.is_running = FALSE /\ indexing_status'.start_time = None]_vars

\* C6: after runs that failed as a whole, what a status query reports
\* differs from what it reports in the idle state the server starts in.
C6_FailedIsObservable ==
    (AllRunsEnded /\ AllRunsRaised)
        => IndexingReport(indexing_status, now) # IndexingReport(InitialStatus, now)

\* C7: a run is executed with clear_db = true only if the update_index call
\* that started it passed clear_db = true; a call that leaves clear_db out
\* and the boot run are executed with clear_db = false.
C7_ClearNeedsOptIn ==
    /\ \A i \in 1..Len(tasks) :
           tasks[i].exec # None
               => /\ tasks[i].exec[1].clear_db = (calls[i].clear_db = Some(TRUE))
                  /\ calls[i].clear_db = None => ~tasks[i].exec[1].clear_db
    /\ boot.exec # None => ~boot.exec[1].clear_db

\* C7, witness: a run executes with clear_db = true, started by a call that
\* passed it, while another run executes a full re-index without clearing.
C7_Witness ==
    \E i, j \in 1..Len(tasks) :
        /\ tasks[i].exec # None /\ tasks[i].exec[1].clear_db
        /\ calls[i].clear_db = Some(TRUE)
        /\ tasks[j].exec # None /\ ~tasks[j].exec[1].clear_db
        /\ ~tasks[j].exec[1].incremental

\* C8: the limit forwarded to the store is at most 50 for search_odoo_index
\* and at most 100 for search_by_attribute and search_xml_id; a limit within
\* the maximum is forwarded unchanged, and so is the offset.
C8_LimitClamped ==
    LET cap == IF search.tool = "search_odoo_index" THEN 50 ELSE 100
    IN  search.tool # "none"
            => /\ search.limit <= cap
               /\ search.limit_in <= cap => search.limit = search.limit_in
               /\ search.offset = search.offset_in

\* C8, witness: search_odoo_index was called with a limit above 50 and below
\* 100, and forwarded 50.
C8_Witness ==
    /\ search.tool = "search_odoo_index"
    /\ search.limit_in > 50 /\ search.limit_in < 100
    /\ search.limit = 50

\* C9: importing the configuration raises whenever ODOO_PATH is unset, empty
\* or names a path that does not exist.
C9_OdooPathRequired ==
    (cfg # None /\ (\/ env.odoo_path = None
                    \/ env.odoo_path = Some("")
                    \/ env.odoo_path[1] \notin env.fs))
        => cfg[1].error # None

\* C10: a get_index_status call that observed is_running = true (line 346)
\* and is about to read start_time (line 347) finds it non-null while the
\* status record still has is_running = true.
C10_RunningHasStartTime ==
    (query.pc = "l347" /\ indexing_status.is_running) => indexing_status.start_time # None

\* the incremental flag and module list, as _indexing_status holds them, of
\* the runs that have begun and have not ended
ParamsInProgress ==
    { [incremental |-> Some(tasks[i].incremental), modules |-> tasks[i].module_filter] :
          i \in {j \in 1..Len(tasks) : tasks[j].pc \notin {"created", "done"}} }
    \cup (IF boot.pc \in {"none", "l389", "done"} THEN {}
          ELSE {[incremental |-> Some(BootIndexArgs.incremental),
                 modules |-> BootIndexArgs.module_filter]})

\* C11: when a get_index_status call that reports is_running = true reads
\* the incremental flag (line 349) while is_running is still true, the flag
\* and the module list in the status record are those of a run in progress.
C11_ReportsRunInProgress ==
    (query.pc = "l349" /\ indexing_status.is_running)
        => [incremental |-> indexing_status.incremental,
            modules |-> indexing_status.modules] \in ParamsInProgress

\* lines 237-270: the arguments an update_index call asks a run to have
TriggerArgs(call) ==
    [incremental |-> WithDefault(call.incremental, TRUE),
     module_filter |-> ModuleFilter(call.modules),
     clear_db |-> WithDefault(call.clear_db, FALSE)]

\* the i-th update_index call was answered with 'started'
Acknowledged(i) ==
    IF i \in 1..Len(responses) THEN responses[i].success ELSE FALSE

\* the run of the i-th update_index call has called index_odoo_codebase
Executed(i) ==
    IF i \in 1..Len(tasks) THEN tasks[i].exec # None ELSE FALSE

\* C12: every update_index call acknowledged as started leads to one
\* index_odoo_codebase execution with the call's incremental flag, module
\* filter and clear_db: an execution belongs to an acknowledged call and has
\* its arguments, it is never made a second time, and it eventually happens.
C12_EveryTriggerExecutedOnce ==
    /\ [](/\ Len(tasks) = Len(responses)
          /\ \A i \in 1..Len(tasks) :
                 tasks[i].exec # None
                     => /\ responses[i].success
                        /\ tasks[i].exec = Some(TriggerArgs(calls[i])))
    /\ [][\A i \in 1..Len(tasks) :
              tasks[i].exec # None => tasks'[i].exec = tasks[i].exec]_vars
    /\ \A i \in 1..MaxTriggers : Acknowledged(i) ~> Executed(i)

\* C12, witness: two acknowledged calls with different arguments, one of
\* them with a module list, have both been executed.
C12_Witness ==
    \E i, j \in 1..Len(tasks) :
        /\ responses[i].success /\ responses[j].success
        /\ tasks[i].exec # None /\ tasks[j].exec # None
        /\ tasks[i].exec # tasks[j].exec
        /\ tasks[i].exec[1].module_filter # None

\* C13: once all runs have ended is_running is false; it becomes true only
\* in the step in which a run starts; and, every index_odoo_codebase call
\* ending, is_running is eventually false for good.
C13_NeverStuckRunning ==
    /\ [](AllRunsEnded => ~indexing_status.is_running)
    /\ [][(~indexing_status.is_running /\ indexing_status'.is_running)
              => \/ \E i \in 1..Len(tasks) :
                        tasks[i].pc = "created" /\ tasks'[i].pc = "l218"
                 \/ boot.pc = "l389" /\ boot'.pc = "l390"]_vars
    /\ <>[](~indexing_status.is_running)

\* C13, witness: the boot run and two triggered runs have all ended, one of
\* them with index_odoo_codebase raising, and is_running is false.
C13_Witness ==
    /\ AllRunsEnded
    /\ boot.pc = "done"
    /\ Len(tasks) >= 2
    /\ \E i \in 1..Len(tasks) : tasks[i].outcome = Some("raised")
    /\ ~indexing_status.is_running

\* C14: the server started, a boot run was started exactly when the index
\* cannot be read or holds no items; that run calls index_odoo_codebase with
\* incremental = false, no module filter and clear_db = false; and main goes
\* on to serve in the step that starts the run, before the run has done
\* anything.
C14_BootRunIffNoIndex ==
    /\ [](server = "boot" => boot.pc = "none")
    /\ [](server = "serving"
              => (boot.pc # "none"
                      <=> env.indexed_items = None \/ env.indexed_items = Some(0)))
    /\ [](boot.exec # None
              => boot.exec = Some([incremental |-> FALSE, module_filter |-> None,
                                   clear_db |-> FALSE]))
    /\ [][(server = "boot" /\ server' = "serving")
              => /\ boot'.pc \in {"none", "l389"}
                 /\ boot'.exec = None
                 /\ indexing_status' = InitialStatus]_vars

\* C14, witness: the database could not be read at start, the boot run is
\* executing index_odoo_codebase, and the server has answered a request.
C14_Witness ==
    /\ env.indexed_items = None
    /\ boot.pc = "indexing"
    /\ boot.exec = Some(BootIndexArgs)
    /\ Len(responses) >= 1

\* C15: an update_index call during which parsing the module list or
\* scheduling the task raises is answered with success = false and an error
\* message; the step starts no run and leaves the status record as it was;
\* the runs created are those of the calls in which nothing raised.
C15_FailedStartIsReported ==
    /\ [][(Len(calls') = Len(calls) + 1 /\ calls'[Len(calls')].raises # None)
              => /\ Len(responses') = Len(responses) + 1
                 /\ LET r == responses'[Len(responses')]
                    IN  /\ ~r.success
                        /\ "error" \in DOMAIN r
                        /\ "status" \notin DOMAIN r
                 /\ tasks' = tasks
                 /\ boot' = boot
                 /\ indexing_status' = indexing_status]_vars
    /\ [](Len(tasks) = Cardinality({i \in 1..Len(calls) : calls[i].raises = None}))

\* C15, witness: a call in which scheduling the task raised and one in which
\* parsing the module list raised have been answered with a failure; there
\* is no run and the status record is as at start.
C15_Witness ==
    /\ \E i, j \in 1..Len(calls) :
           /\ calls[i].raises = Some("create_task") /\ ~responses[i].success
           /\ calls[j].raises = Some("split") /\ ~responses[j].success
    /\ tasks = <<>>
    /\ boot.pc = "none"
    /\ indexing_status = InitialStatus

\* the string s without its blanks
RECURSIVE WithoutBlanks(_)
WithoutBlanks(s) ==
    IF s = <<>> THEN <<>>
    ELSE IF Head(s) = " " THEN WithoutBlanks(Tail(s))
    ELSE <<Head(s)>> \o WithoutBlanks(Tail(s))

\* the entries of the list f, blanks removed, joined with commas
RECURSIVE JoinedWithoutBlanks(_)
JoinedWithoutBlanks(f) ==
    IF Len(f) = 1 THEN WithoutBlanks(f[1])
    ELSE WithoutBlanks(f[1]) \o <<",">> \o JoinedWithoutBlanks(Tail(f))

\* C16, first part: a non-null module filter holds the comma-separated parts
\* of 'modules' in order, each without surrounding blanks; it is what the
\* run passes to index_odoo_codebase.
C16_FilterIsStrippedParts ==
    \A i \in 1..Len(tasks) :
        LET f == tasks[i].module_filter
        IN  /\ f # None
                => /\ calls[i].modules # None
                   /\ Len(f[1]) >= 1
                   /\ \A k \in 1..Len(f[1]) :
                          LET m == f[1][k]
                          IN  /\ \A j \in 1..Len(m) : m[j] # ","
                              /\ m # <<>> => m[1] # " " /\ m[Len(m)] # " "
                   /\ JoinedWithoutBlanks(f[1]) = WithoutBlanks(calls[i].modules[1])
            /\ tasks[i].exec # None => tasks[i].exec[1].module_filter = f

\* C16, second part: without 'modules', or with the empty string, there is
\* no module filter, and only then.
C16_NoFilterWhenNotProvided ==
    \A i \in 1..Len(tasks) :
        (calls[i].modules = None \/ calls[i].modules = Some(<<>>))
            <=> tasks[i].module_filter = None

\* C16, third part: every entry of a non-null module filter is non-empty.
C16_EntriesNonEmpty ==
    \A i \in 1..Len(tasks) :
        tasks[i].module_filter # None
            => \A k \in 1..Len(tasks[i].module_filter[1]) :
                   tasks[i].module_filter[1][k] # <<>>

\* C16: the module filter of a triggered run is the comma-separated names of
\* 'modules', in order, each stripped; there is no filter when 'modules' is
\* null or empty; every entry of a non-null filter is a non-empty name.
C16_ModuleFilterOfRun ==
    /\ C16_FilterIsStrippedParts
    /\ C16_NoFilterWhenNotProvided
    /\ C16_EntriesNonEmpty

====
